---- MODULE Spec2Model ----
(***************************************************************************)
(* Model of src/app.py: the Flask application built by create_app().       *)
(* Two routes (GET /health, POST /api/managers), the rate limiter that     *)
(* runs before every view, the require_api_key and validate_agents         *)
(* decorators, the psycopg2 connection and query of get_managers, and the  *)
(* error handlers.                                                         *)
(*                                                                         *)
(* Python strings are sequences of code points (naturals).  JSON values    *)
(* are records tagged with their Python type.  The handlers share no       *)
(* state but the limiter's counters and the database, so requests are      *)
(* served one at a time.                                                   *)
(***************************************************************************)
EXTENDS Integers, Sequences, FiniteSets, TLC

(***************************************************************************)
(* Bounds of the model.                                                    *)
(***************************************************************************)
\* longest explicit head of an `agents` array (a tail of equal names may follow)
MaxHead == 2
\* the configured RATE_LIMIT (requests per window); 100 when the variable is unset
MaxRateLimit == 1
\* connections the database server accepts at once
MaxConnections == 1

\* validate_agents_decorator(max_agents=300, ...)
max_agents == 300

(***************************************************************************)
(* Python str                                                              *)
(***************************************************************************)
\* "agents"
AgentsKey == <<97, 103, 101, 110, 116, 115>>
\* ", "
JoinSep == <<44, 32>>

\* str.isspace() for one character (the ASCII and Latin-1 part)
IsSpace(c) == c \in {9, 10, 11, 12, 13, 28, 29, 30, 31, 32, 133, 160}

RECURSIVE LStrip(_)
LStrip(s) == IF s # <<>> /\ IsSpace(Head(s)) THEN LStrip(Tail(s)) ELSE s

RECURSIVE RStrip(_)
RStrip(s) ==
    IF s # <<>> /\ IsSpace(s[Len(s)]) THEN RStrip(SubSeq(s, 1, Len(s) - 1)) ELSE s

\* str.strip()
Strip(s) == RStrip(LStrip(s))

\* `sub in s` for two str
IsSubstring(sub, s) ==
    \E i \in 0..(Len(s) - Len(sub)) : SubSeq(s, i + 1, i + Len(sub)) = sub

\* a < b for two str: code point by code point, a proper prefix is smaller
RECURSIVE StrLess(_, _)
StrLess(a, b) ==
    IF b = <<>> THEN FALSE
    ELSE IF a = <<>> THEN TRUE
    ELSE IF Head(a) # Head(b) THEN Head(a) < Head(b)
    ELSE StrLess(Tail(a), Tail(b))

\* sorted(S) for a set of str
RECURSIVE Sorted(_)
Sorted(S) ==
    IF S = {} THEN <<>>
    ELSE LET m == CHOOSE x \in S : \A y \in S \ {x} : StrLess(x, y)
         IN  <<m>> \o Sorted(S \ {m})

\* sep.join(parts)
RECURSIVE Join(_, _)
Join(sep, parts) ==
    IF parts = <<>> THEN <<>>
    ELSE IF Len(parts) = 1 THEN parts[1]
    ELSE parts[1] \o sep \o Join(sep, Tail(parts))

\* s.split(',')
RECURSIVE Split(_)
Split(s) ==
    IF \A i \in 1..Len(s) : s[i] # 44 THEN <<s>>
    ELSE LET i == CHOOSE j \in 1..Len(s) :
                      s[j] = 44 /\ \A k \in 1..(j - 1) : s[k] # 44
         IN  <<SubSeq(s, 1, i - 1)>> \o Split(SubSeq(s, i + 1, Len(s)))

Range(seq) == {seq[i] : i \in 1..Len(seq)}

(***************************************************************************)
(* JSON values as Python objects.  A value is a record tagged with its     *)
(* Python type; an element of a list is a str or a number.                 *)
(***************************************************************************)
\* a list element that is a str
EStr(s) == [t |-> "str", s |-> s]
\* a list element that is not a str (a JSON number)
ENum == [t |-> "int", s |-> <<>>]

JNull == [t |-> "NoneType", b |-> FALSE, n |-> 0, s |-> <<>>, items |-> <<>>]
JBool(b) == [t |-> "bool", b |-> b, n |-> 0, s |-> <<>>, items |-> <<>>]
JNum(n) == [t |-> "int", b |-> FALSE, n |-> n, s |-> <<>>, items |-> <<>>]
JStr(s) == [t |-> "str", b |-> FALSE, n |-> 0, s |-> s, items |-> <<>>]
JList(items) == [t |-> "list", b |-> FALSE, n |-> 0, s |-> <<>>, items |-> items]
\* a JSON object nested under a key (its members are never read)
JDictValue == [t |-> "dict", b |-> FALSE, n |-> 0, s |-> <<>>, items |-> <<>>]

\* the parsed request body: a value, or a dict given by its members in order
Data(v, members) ==
    [t |-> v.t, b |-> v.b, n |-> v.n, s |-> v.s, items |-> v.items,
     members |-> members]
JDict(members) == Data(JDictValue, members)

\* bool(data)
Truthy(d) ==
    CASE d.t = "NoneType" -> FALSE
      [] d.t = "bool" -> d.b
      [] d.t = "int" -> d.n # 0
      [] d.t = "str" -> d.s # <<>>
      [] d.t = "list" -> d.items # <<>>
      [] d.t = "dict" -> d.members # <<>>

\* `key in data`: "True", "False", or "TypeError" for a type with no membership test
Contains(d, key) ==
    CASE d.t = "dict" ->
           IF \E i \in 1..Len(d.members) : d.members[i].k = key
           THEN "True" ELSE "False"
      [] d.t = "list" ->
           IF \E i \in 1..Len(d.items) : d.items[i].t = "str" /\ d.items[i].s = key
           THEN "True" ELSE "False"
      [] d.t = "str" -> IF IsSubstring(key, d.s) THEN "True" ELSE "False"
      [] OTHER -> "TypeError"

\* data[key] is defined for a dict only; list and str indices must be integers
Subscriptable(d) == d.t = "dict"

\* data[key] for a dict that holds key
GetItem(d, key) ==
    LET i == CHOOSE j \in 1..Len(d.members) : d.members[j].k = key
    IN  d.members[i].v

(***************************************************************************)
(* Responses and exceptions                                                *)
(***************************************************************************)
NoException == [type |-> "none", text |-> ""]
Raise(type, text) == [type |-> type, text |-> text]

\* isinstance(e, psycopg2.Error)
IsPsycopg2Error(e) ==
    e.type \in {"psycopg2.OperationalError", "psycopg2.errors.SyntaxError"}

NoResponse ==
    [status |-> 0, keys |-> {}, error |-> "", message |-> "", managers |-> <<>>]

\* jsonify({"error": error}), status
JsonError(status, error) ==
    [status |-> status, keys |-> {"error"}, error |-> error, message |-> "",
     managers |-> <<>>]

\* werkzeug's own page for an HTTP exception no handler is registered for
HtmlError(status) ==
    [status |-> status, keys |-> {}, error |-> "", message |-> "", managers |-> <<>>]

(***************************************************************************)
(* require_api_key                                                         *)
(***************************************************************************)
\* API_KEYS = set(os.getenv('API_KEYS', '').split(','))
ApiKeysOf(env) == Range(Split(env))

\* request.headers.get('X-API-Key'): None when the header is absent
NoHeader == [present |-> FALSE, s |-> <<>>]
Header(s) == [present |-> TRUE, s |-> s]

\* the check without `not api_key`: membership alone decides
ApiKeyAccepted_NoEmptyCheck(api_key, keys) == api_key.present /\ api_key.s \in keys

\* the check with `and` for `or`
ApiKeyAccepted_AndForOr(api_key, keys) ==
    ~((~api_key.present \/ api_key.s = <<>>) /\ api_key.s \notin keys)

\* the decorator calls the view: not (not api_key or api_key not in API_KEYS)
ApiKeyAccepted(api_key, keys) ==
    ~((~api_key.present \/ api_key.s = <<>>) \/ api_key.s \notin keys)

(***************************************************************************)
(* validate_agents_decorator                                               *)
(***************************************************************************)
\* what a decorator does: return a response, raise, abort with an HTTP
\* exception, or call the wrapped view
Return(resp) == [outcome |-> "return", resp |-> resp, exc |-> NoException]
Raises(exc) == [outcome |-> "raise", resp |-> NoResponse, exc |-> exc]
Abort(status) == [outcome |-> "abort", resp |-> HtmlError(status), exc |-> NoException]
CallView == [outcome |-> "call", resp |-> NoResponse, exc |-> NoException]

\* any(agent.strip() == '' for agent in agents)
AnyBlank(agents) == \E i \in 1..Len(agents) : Strip(agents[i].s) = <<>>

\* all(isinstance(agent, str) for agent in agents)
AllStr(agents) == \A i \in 1..Len(agents) : agents[i].t = "str"

\* the checks with the element checks ahead of the length check
CheckAgents_ElementsFirst(agents, max, allow_empty) ==
    IF agents.t # "list"
    THEN Return(JsonError(400, "Agents must be a list"))
    ELSE IF ~AllStr(agents.items)
    THEN Return(JsonError(400, "All agents must be strings"))
    ELSE IF ~allow_empty /\ AnyBlank(agents.items)
    THEN Return(JsonError(400, "Agent names cannot be empty"))
    ELSE IF Len(agents.items) > max
    THEN Return(JsonError(400, "Too many agents, maximum " \o ToString(max)))
    ELSE CallView

\* the checks with allow_empty read as "the list may be empty"
CheckAgents_RejectEmptyList(agents, max, allow_empty) ==
    IF agents.t # "list"
    THEN Return(JsonError(400, "Agents must be a list"))
    ELSE IF Len(agents.items) > max
    THEN Return(JsonError(400, "Too many agents, maximum " \o ToString(max)))
    ELSE IF ~AllStr(agents.items)
    THEN Return(JsonError(400, "All agents must be strings"))
    ELSE IF ~allow_empty /\ (agents.items = <<>> \/ AnyBlank(agents.items))
    THEN Return(JsonError(400, "Agent names cannot be empty"))
    ELSE CallView

\* the checks on data['agents'], in the order of the code
CheckAgents(agents, max, allow_empty) ==
    IF agents.t # "list"
    THEN Return(JsonError(400, "Agents must be a list"))
    ELSE IF Len(agents.items) > max
    THEN Return(JsonError(400, "Too many agents, maximum " \o ToString(max)))
    ELSE IF ~AllStr(agents.items)
    THEN Return(JsonError(400, "All agents must be strings"))
    ELSE IF ~allow_empty /\ AnyBlank(agents.items)
    THEN Return(JsonError(400, "Agent names cannot be empty"))
    ELSE CallView

\* `if not data or 'agents' not in data` and `agents = data['agents']`
CheckData(data, max, allow_empty) ==
    IF ~Truthy(data)
    THEN Return(JsonError(400, "Missing 'agents' in request body"))
    ELSE IF Contains(data, AgentsKey) = "TypeError"
    THEN Raises(Raise("TypeError", "argument of type '" \o data.t \o "' is not iterable"))
    ELSE IF Contains(data, AgentsKey) = "False"
    THEN Return(JsonError(400, "Missing 'agents' in request body"))
    ELSE IF ~Subscriptable(data)
    THEN Raises(Raise("TypeError", data.t \o " indices must be integers"))
    ELSE CheckAgents(GetItem(data, AgentsKey), max, allow_empty)

\* decorated_function of validate_agents_decorator(max, allow_empty);
\* request.get_json() aborts with 400 on a body that does not parse
validate_agents(body, max, allow_empty) ==
    IF ~body.is_json
    THEN Return(JsonError(400, "Content-Type must be application/json"))
    ELSE IF ~body.parses
    THEN Abort(400)
    ELSE CheckData(body.data, max, allow_empty)

(***************************************************************************)
(* get_managers: the query and the shaping of its rows                     *)
(***************************************************************************)
\* a Python dict: its items in insertion order, every key once
DictHas(d, k) == \E i \in 1..Len(d) : d[i].k = k
DictGet(d, k) == d[CHOOSE i \in 1..Len(d) : d[i].k = k].v
\* d[k] = v
DictSet(d, k, v) ==
    IF DictHas(d, k)
    THEN [i \in 1..Len(d) |-> IF d[i].k = k THEN [k |-> k, v |-> v] ELSE d[i]]
    ELSE Append(d, [k |-> k, v |-> v])

\* None, and a str, as a value of the response
None == [none |-> TRUE, s |-> <<>>]
Str(s) == [none |-> FALSE, s |-> s]

\* a row of the query: the manager column is NULL or an email
Row(agent, manager) == [agent |-> agent, manager |-> manager]

\* SELECT DISTINCT username, email ... WHERE username IN (agents): the rows of
\* the join (the table) whose username is one of the parameters
Select(table, agents) == {r \in table : r.agent \in Range(agents)}

\* an update that appends every item, as a list of pairs would
DictUpdate_Append(d, e) == d \o e

\* d after `d[k] = v` for every item (k, v) of e, in e's order
DictUpdate(d, e) ==
    LET new(item) == ~DictHas(d, item.k)
    IN  [i \in 1..Len(d) |-> IF DictHas(e, d[i].k)
                              THEN [k |-> d[i].k, v |-> DictGet(e, d[i].k)]
                              ELSE d[i]]
        \o SelectSeq(e, new)

\* {agent: None for agent in agents}: the assignments of the first half of the
\* list, then those of the second half
RECURSIVE NoneFor(_)
NoneFor(agents) ==
    IF agents = <<>> THEN <<>>
    ELSE IF Len(agents) = 1 THEN DictSet(<<>>, agents[1], None)
    ELSE LET half == Len(agents) \div 2
         IN  DictUpdate(NoneFor(SubSeq(agents, 1, half)),
                        NoneFor(SubSeq(agents, half + 1, Len(agents))))

\* `if manager:` is false for NULL and for ''
ManagerTruthy(manager) == ~manager.none /\ manager.s # <<>>

\* the loop over the rows: agent_managers[agent].add(manager)
RECURSIVE AgentManagers(_)
AgentManagers(rows) ==
    IF rows = <<>> THEN <<>>
    ELSE LET d == AgentManagers(SubSeq(rows, 1, Len(rows) - 1))
             row == rows[Len(rows)]
         IN  IF ManagerTruthy(row.manager)
             THEN DictSet(d, row.agent,
                          (IF DictHas(d, row.agent) THEN DictGet(d, row.agent) ELSE {})
                              \cup {row.manager.s})
             ELSE d

\* the managers joined without sorted(): here in descending order
RECURSIVE Reversed(_)
Reversed(seq) == IF seq = <<>> THEN <<>> ELSE Append(Reversed(Tail(seq)), Head(seq))
Rendered_Unsorted(managers_set) == Str(Join(JoinSep, Reversed(Sorted(managers_set))))

\* the value written for one agent
Rendered(managers_set) == Str(Join(JoinSep, Sorted(managers_set)))

\* the loop over agent_managers.items(): response_data[agent] = ", ".join(sorted(..))
RECURSIVE Overlay(_, _)
Overlay(response_data, agent_managers) ==
    IF agent_managers = <<>> THEN response_data
    ELSE LET item == Head(agent_managers)
             next == IF item.v # {}
                     THEN DictSet(response_data, item.k, Rendered(item.v))
                     ELSE response_data
         IN  Overlay(next, Tail(agent_managers))

\* response_data of lines 122-137
ResponseData(agents, rows) == Overlay(NoneFor(agents), AgentManagers(rows))

\* jsonify({"managers": response_data})
JsonManagers(response_data) ==
    [status |-> 200, keys |-> {"managers"}, error |-> "", message |-> "",
     managers |-> response_data]

\* except clauses that answer with str(e)
ExceptResponse_Echo(e) == JsonError(500, e.text)

\* the two except clauses of get_managers
ExceptResponse(e) ==
    IF IsPsycopg2Error(e) THEN JsonError(500, "Database error")
    ELSE JsonError(500, "Internal server error")

\* a str parameter with a NUL character cannot be adapted: psycopg2 raises ValueError
HasNul(agents) == \E i \in 1..Len(agents) : 0 \in Range(agents[i])

(***************************************************************************)
(* The requests, configurations and database contents the model draws from *)
(***************************************************************************)
\* get_remote_address(): the clients
Addrs == {"10.0.0.1", "10.0.0.2"}

\* the two routes
Endpoints == {"health_check", "get_managers"}

\* the API_KEYS variable: unset (''), and 'k,' (one key and a trailing comma)
ApiKeysEnvs == {<<>>, <<107, 44>>}

\* X-API-Key: absent, '', 'k', 'x'
ApiKeyHeaders == {NoHeader, Header(<<>>), Header(<<107>>), Header(<<120>>)}

\* elements of an agents array: 'a', 'b', ' ', 'a\0', and a number
AgentElems == {EStr(<<97>>), EStr(<<98>>), EStr(<<32>>), EStr(<<97, 0>>), ENum}

SeqsUpTo(S, n) == UNION {[1..k -> S] : k \in 0..n}

\* agents arrays at the limit and one above it: one element repeated, and any
\* element last
LongLists ==
    {[i \in 1..n |-> IF i = n THEN last ELSE e] :
        n \in {max_agents, max_agents + 1}, e \in {EStr(<<97>>), ENum},
        last \in AgentElems}

\* agents arrays: every array of up to MaxHead elements, and the long ones
AgentLists == SeqsUpTo(AgentElems, MaxHead) \cup LongLists

Member(k, v) == [k |-> k, v |-> v]

\* parsed JSON bodies
JsonDatas ==
    {Data(v, <<>>) :
        v \in {JNull, JBool(TRUE), JNum(0), JNum(5), JStr(AgentsKey), JStr(<<97>>),
               JList(<<>>), JList(<<EStr(AgentsKey)>>), JList(<<EStr(<<97>>)>>)}}
    \cup {JDict(<<>>), JDict(<<Member(<<97>>, JNull)>>)}
    \cup {JDict(<<Member(AgentsKey, v)>>) :
            v \in {JNull, JNum(5), JStr(<<97>>), JDictValue}}
    \cup {JDict(<<Member(AgentsKey, JList(l))>>) : l \in AgentLists}

\* request bodies: not JSON by its Content-Type, JSON that does not parse, JSON
Bodies ==
    {[is_json |-> FALSE, parses |-> FALSE, data |-> Data(JNull, <<>>)],
     [is_json |-> TRUE, parses |-> FALSE, data |-> Data(JNull, <<>>)]}
    \cup {[is_json |-> TRUE, parses |-> TRUE, data |-> d] : d \in JsonDatas}

\* what the second client posts: one body that is no JSON and {"agents": ["a"]}
ProbeBodies ==
    {[is_json |-> FALSE, parses |-> FALSE, data |-> Data(JNull, <<>>)],
     [is_json |-> TRUE, parses |-> TRUE,
      data |-> JDict(<<Member(AgentsKey, JList(<<EStr(<<97>>)>>))>>)]}

\* the first client sends every request, the second posts the probe bodies
\* with no key and with the key 'k'
Requests ==
    {[addr |-> "10.0.0.1", endpoint |-> "health_check", api_key |-> NoHeader,
      body |-> [is_json |-> FALSE, parses |-> FALSE, data |-> Data(JNull, <<>>)]]}
    \cup {[addr |-> "10.0.0.1", endpoint |-> "get_managers", api_key |-> h, body |-> b] :
            h \in ApiKeyHeaders, b \in Bodies}
    \cup {[addr |-> "10.0.0.2", endpoint |-> "get_managers", api_key |-> h, body |-> b] :
            h \in {NoHeader, Header(<<107>>)}, b \in ProbeBodies}

NoRequest ==
    [addr |-> "", endpoint |-> "", api_key |-> NoHeader,
     body |-> [is_json |-> FALSE, parses |-> FALSE, data |-> Data(JNull, <<>>)]]

\* contents of the join app_users / user_managers / app_users at query time:
\* 'a' with managers 'm' and 'k' and 'b' with none; 'a' with managers '' and
\* 'm' and 'b' with 'k'; no users
Tables ==
    {{Row(<<97>>, Str(<<109>>)), Row(<<97>>, Str(<<107>>)), Row(<<98>>, None)},
     {Row(<<97>>, Str(<<>>)), Row(<<97>>, Str(<<109>>)), Row(<<98>>, Str(<<107>>))},
     {}}

\* the orders in which a cursor may return a set of rows
Orders(S) ==
    {f \in [1..Cardinality(S) -> S] : \A i, j \in 1..Cardinality(S) : f[i] = f[j] => i = j}

(***************************************************************************)
(* State                                                                   *)
(***************************************************************************)
VARIABLES
    API_KEYS,   \* the accepted keys, fixed at create_app()
    hits,       \* the limiter's counter per client and route, this window
    pc,         \* where the request being served is
    req,        \* the request being served (or last served)
    resp,       \* its response, NoResponse until there is one
    exc,        \* the exception raised while serving it
    agents,     \* get_managers: data['agents']
    result,     \* get_managers: cur.fetchall()
    conn,       \* the connection this request opened: "none", "open", "closed"
    garbage,    \* open connections of earlier requests, not yet finalized
    trace       \* the steps taken for this request, in order

vars == <<API_KEYS, hits, pc, req, resp, exc, agents, result, conn, garbage, trace>>

\* default_limits=[os.getenv('RATE_LIMIT', '100 per hour')]
RateLimit == MaxRateLimit

\* the counter a request is charged to: key_func get_remote_address, and
\* default limits are kept per route
LimitKey(r) == <<r.addr, r.endpoint>>

\* connections the database server holds open
OpenConnections == garbage + (IF conn = "open" THEN 1 ELSE 0)

Init ==
    /\ API_KEYS \in {ApiKeysOf(env) : env \in ApiKeysEnvs}
    /\ hits = [k \in {LimitKey(r) : r \in Requests} |-> 0]
    /\ pc = "idle"
    /\ req = NoRequest
    /\ resp = NoResponse
    /\ exc = NoException
    /\ agents = <<>>
    /\ result = <<>>
    /\ conn = "none"
    /\ garbage = 0
    /\ trace = <<>>

(***************************************************************************)
(* The limiter and the error handlers                                      *)
(***************************************************************************)
\* the counter after one more hit (counts above the limit are not told apart)
Hit(h, key) == [h EXCEPT ![key] = IF @ > RateLimit THEN @ ELSE @ + 1]

\* the comparison off by one: one request more than the limit gets through
Exceeded_OffByOne(h, key) == h[key] > RateLimit + 1

\* the limit is exceeded when the window holds more hits than it allows
Exceeded(h, key) == h[key] > RateLimit

\* @app.errorhandler(429)
ratelimit_handler ==
    [status |-> 429, keys |-> {"error", "message"}, error |-> "Rate limit exceeded",
     message |-> "Too many requests", managers |-> <<>>]

\* @app.errorhandler(500), for an exception no view caught
internal_error_handler(e) == JsonError(500, "Internal server error")

\* health_check's response: {"status": "healthy", "timestamp": ...}
HealthResponse ==
    [status |-> 200, keys |-> {"status", "timestamp"}, error |-> "", message |-> "",
     managers |-> <<>>]

\* `with get_pg_connection() as conn` uses a psycopg2 connection as a context
\* manager: leaving the block commits or rolls back the transaction and leaves
\* the connection open, and nothing calls conn.close().  Once get_managers has
\* returned, the connection object is unreferenced and is closed when the
\* interpreter finalizes it: at once where objects are reference counted and
\* nothing else holds it, later under a tracing collector.
AfterReturn(c) == IF c = "open" THEN {"open", "closed"} ELSE {c}

(***************************************************************************)
(* Actions                                                                 *)
(***************************************************************************)
\* A request arrives; the limiter runs before the view (before_request).
Dispatch(r) ==
    /\ pc = "idle"
    /\ req' = r
    /\ hits' = Hit(hits, LimitKey(r))
    /\ trace' = <<"limiter">>
    /\ IF Exceeded(hits', LimitKey(r))
       THEN resp' = ratelimit_handler /\ pc' = "done"
       ELSE resp' = NoResponse
            /\ pc' = IF r.endpoint = "health_check" THEN "health_check"
                     ELSE "require_api_key"
    /\ UNCHANGED <<API_KEYS, exc, agents, result, conn, garbage>>

\* GET /health
HealthCheck ==
    /\ pc = "health_check"
    /\ resp' = HealthResponse
    /\ pc' = "done"
    /\ trace' = Append(trace, "health_check")
    /\ UNCHANGED <<API_KEYS, hits, req, exc, agents, result, conn, garbage>>

\* @require_api_key
RequireApiKey ==
    /\ pc = "require_api_key"
    /\ trace' = Append(trace, "require_api_key")
    /\ IF ApiKeyAccepted(req.api_key, API_KEYS)
       THEN pc' = "validate_agents" /\ resp' = resp
       ELSE pc' = "done" /\ resp' = JsonError(401, "Unauthorized")
    /\ UNCHANGED <<API_KEYS, hits, req, exc, agents, result, conn, garbage>>

\* @validate_agents_decorator(max_agents=300, allow_empty=False); an exception
\* it raises reaches Flask, which answers with the 500 handler
ValidateAgents ==
    /\ pc = "validate_agents"
    /\ trace' = Append(trace, "validate_agents")
    /\ LET v == validate_agents(req.body, max_agents, FALSE)
       IN  /\ exc' = v.exc
           /\ pc' = IF v.outcome = "call" THEN "get_managers" ELSE "done"
           /\ resp' = IF v.outcome = "raise" THEN internal_error_handler(v.exc)
                      ELSE v.resp
    /\ UNCHANGED <<API_KEYS, hits, req, agents, result, conn, garbage>>

\* get_managers, lines 97-117: read the agents, build the query, connect
Connect ==
    /\ pc = "get_managers"
    /\ OpenConnections < MaxConnections
    /\ agents' = [i \in 1..Len(GetItem(req.body.data, AgentsKey).items) |->
                    GetItem(req.body.data, AgentsKey).items[i].s]
    /\ conn' = "open"
    /\ pc' = "execute"
    /\ trace' = trace \o <<"get_managers", "connect">>
    /\ UNCHANGED <<API_KEYS, hits, req, resp, exc, result, garbage>>

\* psycopg2.connect raises OperationalError: the server is down or full
ConnectFails ==
    /\ pc = "get_managers"
    /\ agents' = [i \in 1..Len(GetItem(req.body.data, AgentsKey).items) |->
                    GetItem(req.body.data, AgentsKey).items[i].s]
    /\ exc' = Raise("psycopg2.OperationalError", "could not connect to server")
    /\ resp' = ExceptResponse(exc')
    /\ pc' = "done"
    /\ trace' = trace \o <<"get_managers", "connect">>
    /\ UNCHANGED <<API_KEYS, hits, req, result, conn, garbage>>

\* what cur.execute(query, agents) raises before any row comes back: a NUL in a
\* parameter (ValueError), `IN ()` for no agents (a syntax error), or nothing
ExecuteError(as) ==
    IF HasNul(as)
    THEN Raise("ValueError", "A string literal cannot contain NUL (0x00) characters.")
    ELSE IF Len(as) = 0
    THEN Raise("psycopg2.errors.SyntaxError", "syntax error at or near \")\"")
    ELSE NoException

\* the server goes away during the query, which closes the connection
ConnectionLost ==
    Raise("psycopg2.OperationalError", "server closed the connection unexpectedly")

\* lines 118-120, the query fails: the parameters cannot be adapted, or the
\* server rejects the query or is lost; the with block is left, the except
\* clause answers and the function returns
ExecuteFails ==
    /\ pc = "execute"
    /\ \E e \in {ExecuteError(agents)}
                 \cup (IF HasNul(agents) THEN {} ELSE {ConnectionLost}) :
          /\ e # NoException
          /\ exc' = e
          /\ resp' = ExceptResponse(e)
          /\ conn' \in IF e = ConnectionLost THEN {"closed"} ELSE AfterReturn(conn)
    /\ pc' = "done"
    /\ trace' = Append(trace, "execute")
    /\ UNCHANGED <<API_KEYS, hits, req, agents, result, garbage>>

\* lines 118-120, the query succeeds: the rows come back in some order
Execute ==
    /\ pc = "execute"
    /\ ExecuteError(agents) = NoException
    /\ \E table \in Tables : result' \in Orders(Select(table, agents))
    /\ pc' = "shape"
    /\ trace' = Append(trace, "execute")
    /\ UNCHANGED <<API_KEYS, hits, req, resp, exc, agents, conn, garbage>>

\* lines 122-140: shape the rows and return
Shape ==
    /\ pc = "shape"
    /\ resp' = JsonManagers(ResponseData(agents, result))
    /\ conn' \in AfterReturn(conn)
    /\ pc' = "done"
    /\ trace' = Append(trace, "shape")
    /\ UNCHANGED <<API_KEYS, hits, req, exc, agents, result, garbage>>

\* the interpreter finalizes an unreferenced connection object, which closes it
Finalize ==
    /\ \/ pc = "done" /\ conn = "open" /\ conn' = "closed" /\ garbage' = garbage
       \/ garbage > 0 /\ garbage' = garbage - 1 /\ conn' = conn
    /\ UNCHANGED <<API_KEYS, hits, pc, req, resp, exc, agents, result, trace>>

\* the response is sent and the request is over; a connection it left open
\* stays open, unreferenced
SendResponse ==
    /\ pc = "done"
    /\ pc' = "idle"
    /\ req' = NoRequest
    /\ resp' = NoResponse
    /\ exc' = NoException
    /\ agents' = <<>>
    /\ result' = <<>>
    /\ conn' = "none"
    /\ garbage' = OpenConnections
    /\ trace' = <<>>
    /\ UNCHANGED <<API_KEYS, hits>>

\* the limiter's window ends
WindowExpires ==
    /\ \E k \in DOMAIN hits : hits[k] > 0
    /\ hits' = [k \in DOMAIN hits |-> 0]
    /\ UNCHANGED <<API_KEYS, pc, req, resp, exc, agents, result, conn, garbage, trace>>

Next ==
    \/ \E r \in Requests : Dispatch(r)
    \/ HealthCheck
    \/ RequireApiKey
    \/ ValidateAgents
    \/ Connect
    \/ ConnectFails
    \/ ExecuteFails
    \/ Execute
    \/ Shape
    \/ SendResponse
    \/ Finalize
    \/ WindowExpires

Spec == Init /\ [][Next]_vars

(***************************************************************************)
(* Vocabulary of the properties: the requests they speak of, described     *)
(* from the interface and not through the decorators' code                 *)
(***************************************************************************)
ManagersRequest == req.endpoint = "get_managers"
Answered == pc = "done"
Ran(step) == step \in Range(trace)
Count(step) == Cardinality({i \in 1..Len(trace) : trace[i] = step})

\* the X-API-Key header is missing, empty, or not one of API_KEYS
BadKey ==
    \/ ~req.api_key.present
    \/ req.api_key.s = <<>>
    \/ req.api_key.s \notin API_KEYS
Authorized == ManagersRequest /\ ~BadKey

\* a string with no character that is not white space
Blank(s) == \A i \in 1..Len(s) : IsSpace(s[i])

\* the body is a JSON object with a member `agents`
HasAgents(body) ==
    /\ body.is_json /\ body.parses /\ body.data.t = "dict"
    /\ \E i \in 1..Len(body.data.members) : body.data.members[i].k = AgentsKey

\* the value of `agents` (of a body with HasAgents)
AgentsOf(body) ==
    body.data.members[CHOOSE i \in 1..Len(body.data.members) :
                          body.data.members[i].k = AgentsKey].v

\* a JSON object holding an `agents` array of at most max_agents strings, none blank
ValidBody(body) ==
    /\ HasAgents(body)
    /\ AgentsOf(body).t = "list"
    /\ Len(AgentsOf(body).items) <= max_agents
    /\ \A i \in 1..Len(AgentsOf(body).items) :
          /\ AgentsOf(body).items[i].t = "str"
          /\ ~Blank(AgentsOf(body).items[i].s)

\* the names asked for, of a valid body
Asked == [i \in 1..Len(AgentsOf(req.body).items) |-> AgentsOf(req.body).items[i].s]

\* the body is {"agents": [...]} with more than max_agents elements
TooLong(body) ==
    /\ HasAgents(body)
    /\ AgentsOf(body).t = "list"
    /\ Len(AgentsOf(body).items) > max_agents

RateLimited == resp = ratelimit_handler

(***************************************************************************)
(* C1                                                                      *)
(***************************************************************************)
\* C1, as stated: a POST /api/managers request whose key is missing, empty or
\* not in API_KEYS is answered 401, whatever its body.
C1_BadKeyAlways401 ==
    (Answered /\ ManagersRequest /\ BadKey) => resp.status = 401

\* C1, amended: such a request is answered 401 {"error": "Unauthorized"} unless
\* the rate limiter has answered it 429 first; in both cases the body is never
\* validated, so it is never answered 400.
C1_BadKey401BeforeValidation ==
    (ManagersRequest /\ BadKey) =>
        /\ ~Ran("validate_agents")
        /\ resp.status # 400
        /\ Answered => (RateLimited \/ resp = JsonError(401, "Unauthorized"))

\* an empty key that is a member of API_KEYS, with a body that would fail
\* validation, answered 401
C1_Witness ==
    /\ Answered /\ ManagersRequest
    /\ req.api_key.present /\ req.api_key.s = <<>> /\ <<>> \in API_KEYS
    /\ ~ValidBody(req.body)
    /\ resp = JsonError(401, "Unauthorized")

(***************************************************************************)
(* C2                                                                      *)
(***************************************************************************)
\* C2: an authorized request whose body is not a JSON object holding a valid
\* `agents` array is answered 400 (the rate limiter's 429 aside), never 200 or 500.
C2_InvalidBody400 ==
    (Answered /\ Authorized /\ ~ValidBody(req.body) /\ ~RateLimited) =>
        resp.status = 400

(***************************************************************************)
(* C3                                                                      *)
(***************************************************************************)
\* C3: when the response is returned the connection the request opened is
\* closed, and no connection of a completed request remains open.
C3_ConnectionClosed ==
    /\ Answered => conn # "open"
    /\ garbage = 0

(***************************************************************************)
(* C4                                                                      *)
(***************************************************************************)
\* the request is authorized and valid and its query has returned its rows
QuerySucceeded ==
    /\ Answered /\ Authorized /\ ValidBody(req.body)
    /\ Ran("execute") /\ exc = NoException

\* C4: a valid request whose query succeeds is answered 200 with a `managers`
\* mapping in which every agent of the input list is a key exactly once.
C4_EveryAgentOnce ==
    QuerySucceeded =>
        /\ resp.status = 200
        /\ resp.keys = {"managers"}
        /\ \A i \in 1..Len(Asked) :
              Cardinality({j \in 1..Len(resp.managers) :
                              resp.managers[j].k = Asked[i]}) = 1

\* the same agent asked twice, with no row in the database, answered 200
C4_Witness ==
    /\ QuerySucceeded
    /\ Len(Asked) = 2 /\ Asked[1] = Asked[2]
    /\ result = <<>>
    /\ resp.status = 200
    /\ Len(resp.managers) = 1

(***************************************************************************)
(* C5                                                                      *)
(***************************************************************************)
\* the emails the query returned for an agent: non-null ones, and non-empty ones
NonNullManagers(agent) ==
    {result[i].manager.s :
        i \in {j \in 1..Len(result) : result[j].agent = agent /\ ~result[j].manager.none}}
NonEmptyManagers(agent) == NonNullManagers(agent) \ {<<>>}

\* value is the emails of S, each once, ascending, joined with ", "
SortedJoinOf(value, S) ==
    \E p \in Orders(S) :
        /\ \A i, j \in 1..Len(p) : i < j => StrLess(p[i], p[j])
        /\ value = Str(Join(JoinSep, p))

Answered200 == Answered /\ ManagersRequest /\ resp.status = 200

\* C5, as stated: the value of a requested agent is null when no row has a
\* non-null manager for it, and otherwise the distinct managers returned for it,
\* sorted ascending and joined with ", ".
C5_NullOrSortedNonNull ==
    Answered200 =>
        \A i \in 1..Len(resp.managers) :
            LET item == resp.managers[i]
            IN  IF NonNullManagers(item.k) = {} THEN item.v = None
                ELSE SortedJoinOf(item.v, NonNullManagers(item.k))

\* C5, amended: the value is null when no row has a non-null, non-empty manager
\* for the agent, and otherwise the distinct non-empty managers returned for it,
\* sorted ascending and joined with ", " (an empty email counts as no manager).
C5_NullOrSortedNonEmpty ==
    Answered200 =>
        \A i \in 1..Len(resp.managers) :
            LET item == resp.managers[i]
            IN  IF NonEmptyManagers(item.k) = {} THEN item.v = None
                ELSE SortedJoinOf(item.v, NonEmptyManagers(item.k))

\* two managers returned in descending order for one agent and none for another
C5_Witness ==
    /\ Answered200
    /\ Len(result) = 3
    /\ result[1].agent = result[2].agent
    /\ ~result[1].manager.none /\ ~result[2].manager.none
    /\ StrLess(result[2].manager.s, result[1].manager.s)
    /\ \E i, j \in 1..Len(resp.managers) :
          /\ resp.managers[i].v = None
          /\ resp.managers[j].v = Str(result[2].manager.s \o JoinSep \o result[1].manager.s)

(***************************************************************************)
(* C6                                                                      *)
(***************************************************************************)
TooManyResponse == JsonError(400, "Too many agents, maximum 300")

\* C6, as stated: an authorized request with more than max_agents agents is
\* always answered 400, and no query is issued.
C6_TooLongAlways400 ==
    (Answered /\ Authorized /\ TooLong(req.body)) =>
        resp.status = 400 /\ ~Ran("connect")

\* C6, amended: unless the rate limiter has answered it 429 first, such a
\* request is answered 400 "Too many agents, maximum 300" whatever its elements
\* are (strings, numbers, blank strings); in both cases the database is not
\* touched.
C6_TooLong400BeforeElements ==
    (Authorized /\ TooLong(req.body)) =>
        /\ ~Ran("get_managers") /\ ~Ran("connect") /\ ~Ran("execute")
        /\ conn = "none"
        /\ Answered => (RateLimited \/ resp = TooManyResponse)

\* max_agents + 1 numbers, answered with the length error
C6_Witness ==
    /\ Answered /\ Authorized /\ TooLong(req.body)
    /\ \A i \in 1..Len(AgentsOf(req.body).items) : AgentsOf(req.body).items[i].t = "int"
    /\ resp = TooManyResponse

(***************************************************************************)
(* C7                                                                      *)
(***************************************************************************)
\* C7: a request that fails with an exception is answered 500 with a generic
\* message, "Database error" for a connect or query error of the database and
\* "Internal server error" for any other exception; the response holds no
\* `managers`, the exception's text is not in it, and the query was issued at
\* most once.
C7_FailureIsGeneric500 ==
    (Answered /\ exc # NoException) =>
        /\ resp.status = 500
        /\ resp.keys = {"error"}
        /\ resp.managers = <<>>
        /\ resp.error = IF exc.type \in {"psycopg2.OperationalError",
                                        "psycopg2.errors.SyntaxError"}
                        THEN "Database error" ELSE "Internal server error"
        /\ resp.error # exc.text /\ resp.message # exc.text
        /\ Count("connect") <= 1 /\ Count("execute") <= 1

\* a query that the server rejects, answered "Database error"
C7_Witness ==
    /\ Answered /\ Ran("execute")
    /\ exc.type = "psycopg2.errors.SyntaxError"
    /\ resp = JsonError(500, "Database error")

EmptyAgents(body) ==
    HasAgents(body) /\ AgentsOf(body).t = "list" /\ AgentsOf(body).items = <<>>

\* C9: an authorized request with body {"agents": []} is never answered 400,
\* and once validation has run for it the view is called.
C9_EmptyListAccepted ==
    (Authorized /\ EmptyAgents(req.body)) =>
        /\ resp.status # 400
        /\ Ran("validate_agents") => (pc = "get_managers" \/ Ran("get_managers"))

\* the view has been entered with no agents
C9_Witness ==
    /\ Authorized /\ EmptyAgents(req.body)
    /\ Ran("validate_agents") /\ Ran("get_managers")
    /\ agents = <<>>

(***************************************************************************)
(* C10                                                                     *)
(***************************************************************************)
\* step a comes before step b in the trace
Before(a, b) ==
    \A j \in 1..Len(trace) : trace[j] = b => \E i \in 1..(j - 1) : trace[i] = a

\* C10: a connection is opened and the query executed only after the key check
\* and the validation have passed, at most once each per request; a request
\* answered 401 or 400 has opened no connection, and GET /health never does.
C10_DatabaseOnlyAfterChecks ==
    /\ Count("connect") <= 1 /\ Count("execute") <= 1
    /\ (Ran("connect") \/ conn # "none") =>
          /\ Authorized /\ ValidBody(req.body)
          /\ Before("require_api_key", "validate_agents")
          /\ Before("validate_agents", "connect")
    /\ Before("connect", "execute")
    /\ (Answered /\ resp.status \in {400, 401}) => (~Ran("connect") /\ conn = "none")
    /\ req.endpoint = "health_check" => (~Ran("connect") /\ conn = "none")

\* an authorized, valid request whose query has run on its connection
C10_Witness ==
    /\ Authorized /\ ValidBody(req.body)
    /\ trace = <<"limiter", "require_api_key", "validate_agents", "get_managers",
                 "connect", "execute">>
    /\ conn = "open"

====
